---------------------------- MODULE Spec2Model ----------------------------
(***************************************************************************)
(* A model of the Raspberry-Pi quantum computer service:                   *)
(*   - QuantumEngine/quantum_simulator.py : class QuantumComputer          *)
(*   - QuantumEngine/utilities.py         : validate_qasm and its helpers  *)
(*   - API/quantum_api.py                 : the Flask request handlers     *)
(*                                                                         *)
(* The external engine (qiskit) is an opaque collaborator.  A QASM script  *)
(* is represented by what the code observes of it: whether qiskit parses   *)
(* it (and, if not, whether the parser message carries ":<line>,<col>:"),  *)
(* the parsed circuit's num_qubits and num_clbits, and the kinds of its    *)
(* text lines as the regular expressions of utilities.py see them.         *)
(*                                                                         *)
(* Request handlers run on threads of the Flask server, all sharing the    *)
(* module-level object qc.  A handler is cut into steps at its accesses to *)
(* the shared object; one step is one action.                              *)
(***************************************************************************)
EXTENDS Integers, Sequences, FiniteSets, TLC

(***************************************************************************)
(* Bounds of the model.                                                    *)
(***************************************************************************)
\* largest qubit count a request or a constructor call asks for is MaxN + 1
MaxN == 2
\* longest script text, in lines, given to the validator
MaxLines == 3
\* most handles built for one backend identifier
MaxBuilds == 2

(***************************************************************************)
(* Program constants.                                                      *)
(***************************************************************************)
VALID == -1
TOO_MANY_QUBITS == -2
REGISTER_MISMATCH == -3
INTERMEDIATE_MEASUREMENT == -4
NO_MEASUREMENT == -5
UNKNOWN_ERROR == -6

\* qc = qsim.QuantumComputer(10)
API_NUM_QUBITS == 10
\* def __init__(self, num_qubits, backend = 'fault-tolerant', max_qubits = 0)
DEFAULT_MAX_QUBITS == 0

ALLOWED_BACKENDS == {"fault-tolerant", "noisy"}
DEFAULT_BACKEND == "fault-tolerant"

\* the names bound at module level in utilities.py (imports, constants, defs)
UtilitiesNames ==
    {"QuantumCircuit", "QiskitError", "re",
     "VALID", "TOO_MANY_QUBITS", "REGISTER_MISMATCH",
     "INTERMEDIATE_MEASUREMENT", "NO_MEASUREMENT", "UNKNOWN_ERROR",
     "validate_qasm", "has_intermediate_measure", "has_measurement"}

\* Two handler threads: a race of this code is between two handlers, each
\* at one of its accesses to qc.
Threads == {1, 2}

(***************************************************************************)
(* Messages: a text with the values formatted into it.                     *)
(***************************************************************************)
Msg(text, args) == [text |-> text, args |-> args]
NoMsg == Msg("", <<>>)

(***************************************************************************)
(* Scripts.                                                                *)
(***************************************************************************)
\* The kinds of text lines, each standing for the lines of one shape:
\*   "blank"              an empty line, or white space only
\*   "slash_comment"      // note
\*   "hash_comment"       # note
\*   "measure"            measure q[0] -> c[0];
\*   "measure_commented"  measure q[0] -> c[0]; // note
\*   "gate"               h q[0];
LineKinds ==
    {"blank", "slash_comment", "hash_comment", "measure", "measure_commented",
     "gate"}

\* the line holds a measure statement of the circuit the parser builds
IsMeasureStatement(k) == k \in {"measure", "measure_commented"}

\* the line holds a gate operation of the circuit the parser builds
IsGateStatement(k) == k = "gate"

\* parser outcomes: the circuit, or QiskitError with or without a location
ParseKinds == {"ok", "err_loc", "err_noloc"}

\* locations (line, col) a parser message may carry
ErrLocs == {<<1, 0>>, <<3, 5>>}

LineSeqs == UNION {[1..k -> LineKinds] : k \in 0..MaxLines}

MkScript(p, nq, nc, loc, ls) ==
    [parse |-> p, nq |-> nq, nc |-> nc, loc |-> loc, lines |-> ls]

\* every script the validator is tried on
Scripts ==
    {MkScript("ok", nq, nc, <<0, 0>>, ls) :
        nq \in 0..(MaxN + 1), nc \in 0..(MaxN + 1), ls \in LineSeqs}
    \cup {MkScript("err_loc", 0, 0, loc, <<>>) : loc \in ErrLocs}
    \cup {MkScript("err_noloc", 0, 0, <<0, 0>>, <<>>)}

\* the scripts posted to the HTTP handlers: a sample of each class
ApiScripts ==
    {MkScript("ok", 1, 1, <<0, 0>>, <<"gate", "measure">>),
     MkScript("ok", MaxN + 1, MaxN + 1, <<0, 0>>, <<"gate", "measure">>),
     MkScript("ok", 1, MaxN + 1, <<0, 0>>, <<"gate", "measure">>),
     MkScript("err_loc", 0, 0, <<3, 5>>, <<>>)}

\* str(e) of the QiskitError raised by QuantumCircuit.from_qasm_str
ParseErrorMsg(s) ==
    IF s.parse = "err_loc" THEN Msg("<input>:%l,%c: parse error", s.loc)
    ELSE Msg("parse error", <<>>)

(***************************************************************************)
(* utilities.py                                                            *)
(***************************************************************************)
\* qasm_code.strip().splitlines(): leading and trailing blank lines go
RECURSIVE StripLeading(_)
StripLeading(ls) ==
    IF ls = <<>> THEN <<>>
    ELSE IF Head(ls) = "blank" THEN StripLeading(Tail(ls))
    ELSE ls

RECURSIVE StripTrailing(_)
StripTrailing(ls) ==
    IF ls = <<>> THEN <<>>
    ELSE IF ls[Len(ls)] = "blank" THEN StripTrailing(SubSeq(ls, 1, Len(ls) - 1))
    ELSE ls

StripLines(ls) == StripTrailing(StripLeading(ls))

\* re.match(r'^measure\s+[^\n]+;\s*$', stripped): the stripped line must
\* end with the ';', which a line with a trailing comment does not
IsMeasureLine(k) == k = "measure"

\* not stripped or stripped.startswith('//') or stripped.startswith('#')
IsSkippedLine(k) == k \in {"blank", "slash_comment", "hash_comment"}

\* the loop of has_intermediate_measure from line i on, with the flag
RECURSIVE IntermediateLoop(_, _, _)
IntermediateLoop(ls, i, found_measure_block) ==
    IF i > Len(ls) THEN FALSE
    ELSE IF IsSkippedLine(ls[i]) THEN IntermediateLoop(ls, i + 1, found_measure_block)
    ELSE IF IsMeasureLine(ls[i]) THEN IntermediateLoop(ls, i + 1, TRUE)
    ELSE IF found_measure_block THEN TRUE
    ELSE IntermediateLoop(ls, i + 1, found_measure_block)

has_intermediate_measure(ls) == IntermediateLoop(StripLines(ls), 1, FALSE)

\* bool(re.search(r'^\s*measure\s+.+?;\s*$', qasm_script, re.MULTILINE)):
\* some line starts with measure and ends with the ';'
has_measurement(ls) == \E i \in 1..Len(ls) : ls[i] = "measure"

\* a validation result: the dict of validate_qasm; loc_type tells whether
\* line and col hold ints (the sentinels) or the strings of match.groups()
Diag(error, line, col, loc_type) ==
    [error |-> error, line |-> line, col |-> col, loc_type |-> loc_type]

Sentinel(error, code) == Diag(error, code, code, "int")

Returned(result) == [exc |-> "", result |-> result]
Raised(exc) == [exc |-> exc, result |-> Sentinel(NoMsg, 0)]

\* the except QiskitError branch of validate_qasm
ParseFailure(s) ==
    IF s.parse = "err_loc"
    THEN Diag(ParseErrorMsg(s), s.loc[1], s.loc[2], "str")
    ELSE Diag(ParseErrorMsg(s), VALID, VALID, "int")

\* a chain that compares the registers before it looks at the limit
StructuralChecks_registers_first(s, num_qubits) ==
    IF s.nq # s.nc
    THEN Returned(Sentinel(Msg("The number of qubits (%q) should match the number of classical registers (%c).",
                               <<s.nq, s.nc>>), REGISTER_MISMATCH))
    ELSE IF s.nq > num_qubits
    THEN Returned(Sentinel(Msg("The device cannot support more than %n qubits.",
                               <<num_qubits>>), TOO_MANY_QUBITS))
    ELSE Raised("NameError")

\* the if / elif chain of validate_qasm on a parsed circuit
StructuralChecks(s, num_qubits) ==
    IF s.nq > num_qubits
    THEN Returned(Sentinel(Msg("The device cannot support more than %n qubits.",
                               <<num_qubits>>), TOO_MANY_QUBITS))
    ELSE IF s.nq # s.nc
    THEN Returned(Sentinel(Msg("The number of qubits (%q) should match the number of classical registers (%c).",
                               <<s.nq, s.nc>>), REGISTER_MISMATCH))
    ELSE IF "has_intermediate_measurement" \notin UtilitiesNames
    THEN Raised("NameError")
    ELSE IF has_intermediate_measure(s.lines)
    THEN Returned(Sentinel(Msg("Cannot measure in the middle of a circuit.", <<>>),
                           INTERMEDIATE_MEASUREMENT))
    ELSE IF ~has_measurement(s.lines)
    THEN Returned(Sentinel(Msg("Circuit must contain at least one measurement.", <<>>),
                           NO_MEASUREMENT))
    ELSE Returned(Sentinel(Msg("Valid circuit.", <<>>), VALID))

validate_qasm(s, num_qubits) ==
    IF s.parse # "ok" THEN Returned(ParseFailure(s))
    ELSE StructuralChecks(s, num_qubits)


(***************************************************************************)
(* quantum_simulator.py : class QuantumComputer                            *)
(***************************************************************************)
\* a simulator handle: the object built for a backend, and which build it is
MkHandle(kind, b, gen) == [kind |-> kind, backend |-> b, gen |-> gen]
NoHandle == MkHandle("", "", 0)

\* outcome of a property assignment: the exception raised ("" for none),
\* its message, and the value the attribute holds afterwards
SetOutcome(exc, msg, value) == [exc |-> exc, msg |-> msg, value |-> value]

\* a setter that assigns before it validates
backend_setter_assigns_first(value, cur) ==
    IF value \notin ALLOWED_BACKENDS
    THEN SetOutcome("ValueError", Msg("The provided backend (%v) is invalid.", <<value>>), value)
    ELSE SetOutcome("", NoMsg, value)

\* @backend.setter, applied to the current attribute value cur
backend_setter(value, cur) ==
    IF value \notin ALLOWED_BACKENDS
    THEN SetOutcome("ValueError", Msg("The provided backend (%v) is invalid.", <<value>>), cur)
    ELSE SetOutcome("", NoMsg, value)

\* a setter that does not look at max_qubits
num_qubits_setter_no_cap(n, cur, maxq) ==
    IF n <= 0
    THEN SetOutcome("ValueError", Msg("Invalid num_qubits: %n. Only integers >= 1 are valid.", <<n>>), cur)
    ELSE SetOutcome("", NoMsg, n)

\* a setter that assigns before it validates
num_qubits_setter_assigns_first(n, cur, maxq) ==
    IF n <= 0
    THEN SetOutcome("ValueError", Msg("Invalid num_qubits: %n. Only integers >= 1 are valid.", <<n>>), n)
    ELSE IF maxq # 0 /\ n > maxq
    THEN SetOutcome("ValueError", Msg("This quantum computer cannot support more than %m qubits.", <<maxq>>), n)
    ELSE SetOutcome("", NoMsg, n)

\* a setter whose cap is exclusive
num_qubits_setter_exclusive_cap(n, cur, maxq) ==
    IF n <= 0
    THEN SetOutcome("ValueError", Msg("Invalid num_qubits: %n. Only integers >= 1 are valid.", <<n>>), cur)
    ELSE IF maxq # 0 /\ n >= maxq
    THEN SetOutcome("ValueError", Msg("This quantum computer cannot support more than %m qubits.", <<maxq>>), cur)
    ELSE SetOutcome("", NoMsg, n)

\* @num_qubits.setter, applied to the current attribute value cur
num_qubits_setter(n, cur, maxq) ==
    IF n <= 0
    THEN SetOutcome("ValueError", Msg("Invalid num_qubits: %n. Only integers >= 1 are valid.", <<n>>), cur)
    ELSE IF maxq # 0 /\ n > maxq
    THEN SetOutcome("ValueError", Msg("This quantum computer cannot support more than %m qubits.", <<maxq>>), cur)
    ELSE SetOutcome("", NoMsg, n)

\* __init_backend: the cache after the call; gen numbers the handle built
init_backend(sims, b, gen) ==
    IF b = "fault-tolerant" THEN (b :> MkHandle("aer_simulator", b, gen)) @@ sims
    ELSE IF b = "noisy" THEN (b :> MkHandle("AerSimulator(FakeAlmadenV2)", b, gen)) @@ sims
    ELSE sims

\* a limit check that lets one qubit too many through
validate_circuit_off_by_one(nq, num_qubits) ==
    IF nq > num_qubits + 1 THEN "ValueError" ELSE ""

\* __validate_circuit: the exception raised for a circuit of nq qubits
validate_circuit(nq, num_qubits) ==
    IF nq > num_qubits THEN "ValueError" ELSE ""

\* __init__: the exception raised, or the attributes of the new object
QuantumComputerInit(num_qubits, b, maxq) ==
    IF maxq < 0 THEN [exc |-> "ValueError", backend |-> "", n_qubits |-> 0]
    ELSE IF backend_setter(b, "").exc # ""
    THEN [exc |-> "ValueError", backend |-> "", n_qubits |-> 0]
    ELSE IF num_qubits_setter(num_qubits, 0, maxq).exc # ""
    THEN [exc |-> "ValueError", backend |-> b, n_qubits |-> 0]
    ELSE [exc |-> "", backend |-> backend_setter(b, "").value,
          n_qubits |-> num_qubits_setter(num_qubits, 0, maxq).value]

(***************************************************************************)
(* Inputs.                                                                 *)
(***************************************************************************)
\* qubit counts asked for: invalid (<= 0), valid, and above the cap MaxN
QubitInputs == (-1)..(MaxN + 1)
BackendInputs == ALLOWED_BACKENDS \cup {"quantum-foam"}

CtorNumQubits == QubitInputs \cup {API_NUM_QUBITS}
CtorMaxQubits == {-1, DEFAULT_MAX_QUBITS, MaxN}

\* JSON bodies: empty (falsy), without the field, or with the field
QubitBodies ==
    {[kind |-> "empty", val |-> 0], [kind |-> "nofield", val |-> 0]}
    \cup {[kind |-> "value", val |-> n] : n \in QubitInputs}

BackendBodies ==
    {[kind |-> "empty", val |-> ""], [kind |-> "nofield", val |-> ""]}
    \cup {[kind |-> "value", val |-> b] : b \in BackendInputs \cup {""}}

NoScript == MkScript("", 0, 0, <<0, 0>>, <<>>)

ScriptBodies ==
    {[kind |-> "empty", script |-> NoScript], [kind |-> "nofield", script |-> NoScript]}
    \cup {[kind |-> "value", script |-> s] : s \in ApiScripts \cup {NoScript}}

(***************************************************************************)
(* quantum_api.py : responses                                              *)
(***************************************************************************)
NoDiag == Sentinel(NoMsg, 0)

\* a response: HTTP status (0: a direct call, no HTTP), the JSON fields the
\* handlers use, and the exception that left the handler (answered 500)
NoResp ==
    [status |-> 0, message |-> "", error |-> NoMsg, num_qubits |-> 0,
     backend |-> "", diag |-> NoDiag, result |-> FALSE, text |-> "", exc |-> ""]

\* Flask answers an exception that leaves a view function with status 500
Unhandled(exc) == [NoResp EXCEPT !.status = 500, !.exc = exc]

\* jsonify raises TypeError unless every value is of a JSON type
jsonify(types, r) ==
    IF types \subseteq {"str", "int", "float", "bool", "NoneType", "list", "dict"}
    THEN r ELSE Unhandled("TypeError")

NoBodyError == Msg("Request contained no JSON body.", <<>>)

\* update_qubits: the response and the value of qc.num_qubits afterwards
update_qubits_handler(body, cur, maxq) ==
    IF body.kind = "empty"
    THEN [value |-> cur,
          resp |-> jsonify({"str"}, [NoResp EXCEPT !.status = 400,
                      !.message = "Missing request body.", !.error = NoBodyError])]
    ELSE IF body.kind = "nofield"
    THEN [value |-> cur, resp |-> Unhandled("TypeError")]   \* int(None)
    ELSE IF body.val = 0
    THEN [value |-> cur,
          resp |-> jsonify({"str"}, [NoResp EXCEPT !.status = 400,
                      !.message = "Missing request field.",
                      !.error = Msg("Missing \"num_qubits\" field.", <<>>)])]
    ELSE IF num_qubits_setter(body.val, cur, maxq).exc = "ValueError"
    THEN [value |-> num_qubits_setter(body.val, cur, maxq).value,
          resp |-> jsonify({"str", "ValueError"}, [NoResp EXCEPT !.status = 400,
                      !.message = "Invalid number of qubits.",
                      !.error = num_qubits_setter(body.val, cur, maxq).msg])]
    ELSE [value |-> num_qubits_setter(body.val, cur, maxq).value,
          resp |-> jsonify({"str", "int"}, [NoResp EXCEPT !.status = 200,
                      !.message = "Success", !.num_qubits = body.val])]

\* str(data.get('backend'))
BackendField(body) == IF body.kind = "nofield" THEN "None" ELSE body.val

\* update_backend: the response and the value of qc.backend afterwards
update_backend_handler(body, cur) ==
    IF body.kind = "empty"
    THEN [value |-> cur,
          resp |-> jsonify({"str"}, [NoResp EXCEPT !.status = 400,
                      !.message = "Missing request body.", !.error = NoBodyError])]
    ELSE IF BackendField(body) = ""
    THEN [value |-> cur,
          resp |-> jsonify({"str"}, [NoResp EXCEPT !.status = 400,
                      !.message = "Missing request field.",
                      !.error = Msg("Missing \"backend\" field.", <<>>)])]
    ELSE IF backend_setter(BackendField(body), cur).exc = "ValueError"
    THEN [value |-> backend_setter(BackendField(body), cur).value,
          resp |-> jsonify({"str"}, [NoResp EXCEPT !.status = 400,
                      !.message = "Invalid backend.",
                      !.error = backend_setter(BackendField(body), cur).msg])]
    ELSE IF backend_setter(BackendField(body), cur).exc # ""
    THEN [value |-> backend_setter(BackendField(body), cur).value,
          resp |-> jsonify({"str"}, [NoResp EXCEPT !.status = 500,
                      !.message = "Internal server error."])]
    ELSE [value |-> backend_setter(BackendField(body), cur).value,
          resp |-> jsonify({"str"}, [NoResp EXCEPT !.status = 200,
                      !.message = "Success", !.backend = BackendField(body)])]

\* the body checks shared by run_script and validate_script: the 400
\* response, or NoResp when the script is there
ScriptBodyCheck(body) ==
    IF body.kind = "empty"
    THEN jsonify({"str"}, [NoResp EXCEPT !.status = 400, !.error = NoBodyError])
    ELSE IF body.kind = "nofield" \/ body.script = NoScript
    THEN jsonify({"str"}, [NoResp EXCEPT !.status = 400,
             !.error = Msg("No QASM script: Missing \"script\" field.", <<>>)])
    ELSE NoResp

\* jsonify(validate_qasm(qasm, qc.num_qubits)), status
ValidatorResponse(s, num_qubits, status) ==
    IF validate_qasm(s, num_qubits).exc # ""
    THEN Unhandled(validate_qasm(s, num_qubits).exc)
    ELSE jsonify({"str", "int"}, [NoResp EXCEPT !.status = status,
             !.diag = validate_qasm(s, num_qubits).result])


(***************************************************************************)
(* State.                                                                  *)
(***************************************************************************)
VARIABLES
    max_qubits,   \* qc.__max_qubits, fixed at construction
    n_qubits,     \* qc.__n_qubits
    backend,      \* qc.__backend
    simulators,   \* qc.__simulators: backend identifier -> handle
    pc,           \* per thread: where its handler stands
    loc,          \* per thread: the request and the handler's locals
    resp,         \* per thread: the response of the handler
    vq            \* a call of a function of utilities.py on its own: input, output

qcvars == <<max_qubits, n_qubits, backend, simulators>>
vars == <<max_qubits, n_qubits, backend, simulators, pc, loc, resp, vq>>

\* the locals of a handler: the request (op and body: kind, n, b, script);
\* for an execution, from the cache test to the lookup, the backend read by
\* the test and whether it was cached (b_checked, hit); the handle taken
\* (sim), as long as the frame of __call__ lives; the exception __call__
\* raised (exc) and, if __validate_circuit raised it, the limit it read
NoLoc ==
    [op |-> "", kind |-> "", n |-> 0, b |-> "", script |-> NoScript,
     b_checked |-> "", hit |-> FALSE, sim |-> NoHandle,
     limit |-> 0, exc |-> ""]

\* the request of a handler, without the locals of the execution
Request(l) ==
    [NoLoc EXCEPT !.op = l.op, !.kind = l.kind, !.n = l.n, !.b = l.b,
                  !.script = l.script]

\* how many handles have been built for backend b: each build is stored,
\* and numbered one more than the stored one
built(b) == IF b \in DOMAIN simulators THEN simulators[b].gen ELSE 0

NoCall == [phase |-> "off", script |-> NoScript, limit |-> 0,
           out |-> Returned(NoDiag)]

\* the cache of a new object: self.__simulators = {}
EmptyCache == [b \in {} |-> NoHandle]

ThreadsInit ==
    /\ pc = [t \in Threads |-> "idle"]
    /\ loc = [t \in Threads |-> NoLoc]
    /\ resp = [t \in Threads |-> NoResp]

\* the state after a construction that raised nothing
Init ==
    /\ \E n \in CtorNumQubits, b \in BackendInputs, m \in CtorMaxQubits :
          /\ QuantumComputerInit(n, b, m).exc = ""
          /\ max_qubits = m
          /\ n_qubits = QuantumComputerInit(n, b, m).n_qubits
          /\ backend = QuantumComputerInit(n, b, m).backend
    /\ simulators = EmptyCache
    /\ ThreadsInit
    /\ vq = NoCall

\* the handler of thread t ends with response r, its locals being l
Finish(t, l, r) ==
    /\ pc' = [pc EXCEPT ![t] = "done"]
    /\ loc' = [loc EXCEPT ![t] = l]
    /\ resp' = [resp EXCEPT ![t] = r]

\* the handler of thread t goes on at label, its locals being l
Goto(t, label, l) ==
    /\ pc' = [pc EXCEPT ![t] = label]
    /\ loc' = [loc EXCEPT ![t] = l]
    /\ UNCHANGED resp

(***************************************************************************)
(* Handlers that are one step: they touch qc at most once.                 *)
(***************************************************************************)
index(t) ==
    /\ pc[t] = "idle"
    /\ Finish(t, [NoLoc EXCEPT !.op = "index"],
              [NoResp EXCEPT !.status = 200, !.text = "HELP"])
    /\ UNCHANGED <<qcvars, vq>>

ping(t) ==
    /\ pc[t] = "idle"
    /\ Finish(t, [NoLoc EXCEPT !.op = "ping"],
              [NoResp EXCEPT !.status = 200, !.text = "Quantum Pi Online"])
    /\ UNCHANGED <<qcvars, vq>>

get_qubits(t) ==
    /\ pc[t] = "idle"
    /\ Finish(t, [NoLoc EXCEPT !.op = "get_qubits"],
              jsonify({"str", "int"}, [NoResp EXCEPT !.status = 200,
                  !.message = "Success", !.num_qubits = n_qubits]))
    /\ UNCHANGED <<qcvars, vq>>

get_backend(t) ==
    /\ pc[t] = "idle"
    /\ Finish(t, [NoLoc EXCEPT !.op = "get_backend"],
              jsonify({"str"}, [NoResp EXCEPT !.status = 200,
                  !.message = "Success", !.backend = backend]))
    /\ UNCHANGED <<qcvars, vq>>

\* a validation that fills the cache as an execution does
validate_script_fills_cache(t) ==
    /\ pc[t] = "idle"
    /\ \E body \in ScriptBodies :
          Finish(t, [NoLoc EXCEPT !.op = "validate", !.kind = body.kind,
                                  !.script = body.script],
                 IF ScriptBodyCheck(body) # NoResp THEN ScriptBodyCheck(body)
                 ELSE ValidatorResponse(body.script, n_qubits, 200))
    /\ simulators' = IF backend \in DOMAIN simulators THEN simulators
                     ELSE init_backend(simulators, backend, 1)
    /\ UNCHANGED <<max_qubits, n_qubits, backend, vq>>

validate_script(t) ==
    /\ pc[t] = "idle"
    /\ \E body \in ScriptBodies :
          Finish(t, [NoLoc EXCEPT !.op = "validate", !.kind = body.kind,
                                  !.script = body.script],
                 IF ScriptBodyCheck(body) # NoResp THEN ScriptBodyCheck(body)
                 ELSE ValidatorResponse(body.script, n_qubits, 200))
    /\ UNCHANGED <<qcvars, vq>>

update_qubits(t) ==
    /\ pc[t] = "idle"
    /\ \E body \in QubitBodies :
          /\ n_qubits' = update_qubits_handler(body, n_qubits, max_qubits).value
          /\ Finish(t, [NoLoc EXCEPT !.op = "update_qubits", !.kind = body.kind,
                                     !.n = body.val],
                    update_qubits_handler(body, n_qubits, max_qubits).resp)
    /\ UNCHANGED <<max_qubits, backend, simulators, vq>>

update_backend(t) ==
    /\ pc[t] = "idle"
    /\ \E body \in BackendBodies :
          /\ backend' = update_backend_handler(body, backend).value
          /\ Finish(t, [NoLoc EXCEPT !.op = "update_backend", !.kind = body.kind,
                                     !.b = body.val],
                    update_backend_handler(body, backend).resp)
    /\ UNCHANGED <<max_qubits, n_qubits, simulators, vq>>

(***************************************************************************)
(* Assignments to the properties by code that holds the object itself.     *)
(***************************************************************************)
assign_num_qubits(t) ==
    /\ pc[t] = "idle"
    /\ \E n \in QubitInputs :
          /\ n_qubits' = num_qubits_setter(n, n_qubits, max_qubits).value
          /\ Finish(t, [NoLoc EXCEPT !.op = "assign_num_qubits", !.kind = "value", !.n = n],
                    [NoResp EXCEPT !.exc = num_qubits_setter(n, n_qubits, max_qubits).exc,
                                   !.error = num_qubits_setter(n, n_qubits, max_qubits).msg])
    /\ UNCHANGED <<max_qubits, backend, simulators, vq>>

assign_backend(t) ==
    /\ pc[t] = "idle"
    /\ \E b \in BackendInputs :
          /\ backend' = backend_setter(b, backend).value
          /\ Finish(t, [NoLoc EXCEPT !.op = "assign_backend", !.kind = "value", !.b = b],
                    [NoResp EXCEPT !.exc = backend_setter(b, backend).exc,
                                   !.error = backend_setter(b, backend).msg])
    /\ UNCHANGED <<max_qubits, n_qubits, simulators, vq>>

(***************************************************************************)
(* POST /execute: run_script and QuantumComputer.__call__, step by step.   *)
(***************************************************************************)
\* run_script, lines 28-38: the body checks, up to the call qc(qasm, shots)
run_script(t) ==
    /\ pc[t] = "idle"
    /\ \E body \in ScriptBodies :
          IF ScriptBodyCheck(body) # NoResp
          THEN Finish(t, [NoLoc EXCEPT !.op = "execute", !.kind = body.kind],
                      ScriptBodyCheck(body))
          ELSE Goto(t, "call_check",
                    [NoLoc EXCEPT !.op = "execute", !.kind = body.kind,
                                  !.script = body.script])
    /\ UNCHANGED <<qcvars, vq>>

\* an execution that parses the script before it looks at the cache
call_check_parses_first(t) ==
    /\ pc[t] = "call_check"
    /\ Goto(t, "call_validate", Request(loc[t]))
    /\ UNCHANGED <<qcvars, vq>>

\* a cache test that always misses
call_check_always_misses(t) ==
    /\ pc[t] = "call_check"
    /\ Goto(t, "call_init",
            [loc[t] EXCEPT !.b_checked = backend,
                           !.hit = backend \in DOMAIN simulators])
    /\ UNCHANGED <<qcvars, vq>>

\* __call__, line 78: if self.backend not in self.__simulators
call_check(t) ==
    /\ pc[t] = "call_check"
    /\ Goto(t, IF backend \in DOMAIN simulators THEN "call_lookup" ELSE "call_init",
            [loc[t] EXCEPT !.b_checked = backend,
                           !.hit = backend \in DOMAIN simulators])
    /\ UNCHANGED <<qcvars, vq>>

\* a lazy construction that tests the cache again in the step that stores
call_init_get_or_create(t) ==
    /\ pc[t] = "call_init"
    /\ built(backend) < MaxBuilds
    /\ simulators' = IF backend \in DOMAIN simulators THEN simulators
                     ELSE init_backend(simulators, backend, built(backend) + 1)
    /\ Goto(t, "call_lookup", loc[t])
    /\ UNCHANGED <<max_qubits, n_qubits, backend, vq>>

\* __call__, line 79: self.__init_backend(self.backend); building a handle
\* touches nothing shared, so reading the argument, building and storing
\* are one step
call_init(t) ==
    /\ pc[t] = "call_init"
    /\ built(backend) < MaxBuilds
    /\ simulators' = init_backend(simulators, backend, built(backend) + 1)
    /\ Goto(t, "call_lookup", loc[t])
    /\ UNCHANGED <<max_qubits, n_qubits, backend, vq>>

\* __call__, line 80: sim = self.__simulators[self.backend]
call_lookup(t) ==
    /\ pc[t] = "call_lookup"
    /\ IF backend \in DOMAIN simulators
       THEN Goto(t, "call_validate",
                 [Request(loc[t]) EXCEPT !.sim = simulators[backend]])
       ELSE Goto(t, "except", [Request(loc[t]) EXCEPT !.exc = "KeyError"])
    /\ UNCHANGED <<qcvars, vq>>

\* __call__, lines 82-83: parse the script, then __validate_circuit
call_validate(t) ==
    /\ pc[t] = "call_validate"
    /\ IF loc[t].script.parse # "ok"
       THEN Goto(t, "except", [Request(loc[t]) EXCEPT !.exc = "QiskitError"])
       ELSE IF validate_circuit(loc[t].script.nq, n_qubits) # ""
       THEN Goto(t, "except",
                 [Request(loc[t]) EXCEPT !.limit = n_qubits,
                      !.exc = validate_circuit(loc[t].script.nq, n_qubits)])
       ELSE Goto(t, "call_engine", loc[t])
    /\ UNCHANGED <<qcvars, vq>>

\* __call__, lines 85-96, and run_script, lines 46-49: the engine computes
\* the result on sim, or raises; the result is answered with status 200
call_engine(t) ==
    /\ pc[t] = "call_engine"
    /\ \E ok \in BOOLEAN :
          IF ok
          THEN Finish(t, Request(loc[t]),
                      jsonify({"list", "dict"}, [NoResp EXCEPT !.status = 200, !.result = TRUE]))
          ELSE Goto(t, "except", [Request(loc[t]) EXCEPT !.exc = "EngineError"])
    /\ UNCHANGED <<qcvars, vq>>

\* run_script, lines 43-44: except: validate_qasm(qasm, qc.num_qubits), 400
run_script_except(t) ==
    /\ pc[t] = "except"
    /\ Finish(t, Request(loc[t]), ValidatorResponse(loc[t].script, n_qubits, 400))
    /\ UNCHANGED <<qcvars, vq>>

\* the response leaves; the thread is free for the next request
respond(t) ==
    /\ pc[t] = "done"
    /\ pc' = [pc EXCEPT ![t] = "idle"]
    /\ loc' = [loc EXCEPT ![t] = NoLoc]
    /\ resp' = [resp EXCEPT ![t] = NoResp]
    /\ UNCHANGED <<qcvars, vq>>

Step(t) ==
    \/ index(t)
    \/ ping(t)
    \/ get_qubits(t)
    \/ get_backend(t)
    \/ validate_script(t)
    \/ update_qubits(t)
    \/ update_backend(t)
    \/ assign_num_qubits(t)
    \/ assign_backend(t)
    \/ run_script(t)
    \/ call_check(t)
    \/ call_init(t)
    \/ call_lookup(t)
    \/ call_validate(t)
    \/ call_engine(t)
    \/ run_script_except(t)
    \/ respond(t)

\* handlers running concurrently on the threads of the server
Next == \E t \in Threads : Step(t)

Spec == Init /\ [][Next]_vars

\* one request at a time: a single thread serves them all
NextSeq == Step(1)

SpecSeq == Init /\ [][NextSeq]_vars

(***************************************************************************)
(* validate_qasm on its own, over all scripts and limits of the bounds.    *)
(***************************************************************************)
InitValidate ==
    /\ max_qubits = DEFAULT_MAX_QUBITS
    /\ n_qubits = API_NUM_QUBITS
    /\ backend = DEFAULT_BACKEND
    /\ simulators = EmptyCache
    /\ ThreadsInit
    /\ \E s \in Scripts, n \in 1..(MaxN + 1) :
          vq = [phase |-> "call", script |-> s, limit |-> n, out |-> Returned(NoDiag)]

call_validate_qasm ==
    /\ vq.phase = "call"
    /\ vq' = [vq EXCEPT !.phase = "return", !.out = validate_qasm(vq.script, vq.limit)]
    /\ UNCHANGED <<qcvars, pc, loc, resp>>

NextValidate == call_validate_qasm

SpecValidate == InitValidate /\ [][NextValidate]_vars


(***************************************************************************)
(* has_intermediate_measure on its own, over all texts of the bounds.      *)
(***************************************************************************)
InitMeasure ==
    /\ max_qubits = DEFAULT_MAX_QUBITS
    /\ n_qubits = API_NUM_QUBITS
    /\ backend = DEFAULT_BACKEND
    /\ simulators = EmptyCache
    /\ ThreadsInit
    /\ \E ls \in LineSeqs :
          vq = [phase |-> "call_measure", script |-> MkScript("ok", 0, 0, <<0, 0>>, ls),
                limit |-> 0, out |-> Returned(FALSE)]

call_has_intermediate_measure ==
    /\ vq.phase = "call_measure"
    /\ vq' = [vq EXCEPT !.phase = "return_measure",
                        !.out = Returned(has_intermediate_measure(vq.script.lines))]
    /\ UNCHANGED <<qcvars, pc, loc, resp>>

NextMeasure == call_has_intermediate_measure

SpecMeasure == InitMeasure /\ [][NextMeasure]_vars

(***************************************************************************)
(* Properties.                                                             *)
(***************************************************************************)
\* thread t runs the one-step handler op in this step
Handles(t, op) == pc[t] = "idle" /\ pc'[t] = "done" /\ loc'[t].op = op

\* thread t has answered a request of handler op
Answered(t, op) == pc[t] = "done" /\ loc[t].op = op

\* n is a qubit count the object accepts
ValidQubits(n) == n >= 1 /\ (max_qubits = 0 \/ n <= max_qubits)

\* C1: in every reachable state, whatever assignments (accepted or
\* rejected) and executions were interleaved, num_qubits >= 1, num_qubits
\* <= max_qubits when max_qubits > 0, backend is an allowed identifier and
\* every key of the backend cache is an allowed identifier.
C1_ConfigurationInvariant ==
    /\ n_qubits >= 1
    /\ (max_qubits > 0 => n_qubits <= max_qubits)
    /\ backend \in ALLOWED_BACKENDS
    /\ DOMAIN simulators \subseteq ALLOWED_BACKENDS

\* a backend assignment was rejected while an execution that has filled
\* the cache for both backends is under way, on a capped object
C1_Witness ==
    /\ max_qubits > 0
    /\ DOMAIN simulators = ALLOWED_BACKENDS
    /\ \E t, u \in Threads :
          /\ Answered(t, "assign_backend") /\ resp[t].exc = "ValueError"
          /\ pc[u] = "call_engine"

\* C2: an assignment of num_qubits with a value <= 0, or above max_qubits
\* when max_qubits > 0, raises the invalid-configuration error (ValueError)
\* and leaves num_qubits, backend and the backend cache as they were.
C2_RejectedQubitsKeepState ==
    [][\A t \in Threads :
          (Handles(t, "assign_num_qubits") /\ ~ValidQubits(loc'[t].n))
             => /\ resp'[t].exc = "ValueError"
                /\ n_qubits' = n_qubits
                /\ backend' = backend
                /\ simulators' = simulators]_vars

\* an assignment of a value above the cap was rejected, with a cache that
\* holds a handle
C2_Witness ==
    \E t \in Threads :
       /\ Answered(t, "assign_num_qubits")
       /\ max_qubits > 0 /\ loc[t].n > max_qubits
       /\ resp[t].exc = "ValueError"
       /\ simulators # EmptyCache

\* the steps C3 speaks of, for an HTTP value that stands for "outside the
\* allowed set": assignment, POST /update/backend, GET /get/backend
C3_Steps(t, http_values) ==
    /\ (Handles(t, "assign_backend") /\ loc'[t].b \notin ALLOWED_BACKENDS)
          => resp'[t].exc = "ValueError" /\ backend' = backend
    /\ (Handles(t, "update_backend") /\ loc'[t].kind = "value"
           /\ loc'[t].b \in http_values)
          => /\ resp'[t].status = 400
             /\ resp'[t].message = "Invalid backend."
             /\ resp'[t].error.text = "The provided backend (%v) is invalid."
             /\ backend' = backend
    /\ Handles(t, "get_backend")
          => /\ resp'[t].status = 200
             /\ resp'[t].backend = backend
             /\ backend' = backend

\* C3 as claimed: every value outside the allowed set is rejected by the
\* assignment, and by POST /update/backend with status 400 and an
\* invalid-backend error, the backend staying what GET /get/backend reports.
C3_Original ==
    [][\A t \in Threads :
          C3_Steps(t, (BackendInputs \cup {""}) \ ALLOWED_BACKENDS)]_vars

\* C3 (amended): the same for every non-empty value outside the allowed
\* set; an empty string is answered 400 as a missing field, and leaves the
\* backend unchanged too.
C3_InvalidBackendRejected ==
    [][\A t \in Threads :
          /\ C3_Steps(t, BackendInputs \ ALLOWED_BACKENDS)
          /\ (Handles(t, "update_backend") /\ loc'[t].kind = "value"
                 /\ loc'[t].b = "")
                => /\ resp'[t].status = 400
                   /\ resp'[t].message = "Missing request field."
                   /\ backend' = backend]_vars

\* POST /update/backend {"backend": "quantum-foam"} was answered 400 with
\* the invalid-backend error while the backend is "noisy"
C3_Witness ==
    \E t \in Threads :
       /\ Answered(t, "update_backend") /\ loc[t].b = "quantum-foam"
       /\ resp[t].status = 400 /\ resp[t].message = "Invalid backend."
       /\ backend = "noisy"

\* thread t makes a successful assignment of n_qubits' in this step
AssignsQubits(t) ==
    \/ Handles(t, "assign_num_qubits") /\ resp'[t].exc = ""
          /\ loc'[t].n = n_qubits'
    \/ Handles(t, "update_qubits") /\ resp'[t].status = 200
          /\ loc'[t].kind = "value" /\ loc'[t].n = n_qubits'

\* C4: for every n >= 1 within max_qubits (any n >= 1 when max_qubits = 0)
\* an assignment of n succeeds and a POST /update/qubits of n answers 200
\* with num_qubits = n; num_qubits then is n; it changes only by a
\* successful assignment; and GET /get/qubits reports its current value.
C4_ValidQubitsAssignedAndRead ==
    [][/\ \A t \in Threads :
             /\ (Handles(t, "assign_num_qubits") /\ ValidQubits(loc'[t].n))
                   => resp'[t].exc = "" /\ n_qubits' = loc'[t].n
             /\ (Handles(t, "update_qubits") /\ loc'[t].kind = "value"
                    /\ ValidQubits(loc'[t].n))
                   => /\ resp'[t].status = 200
                      /\ resp'[t].num_qubits = loc'[t].n
                      /\ n_qubits' = loc'[t].n
             /\ Handles(t, "get_qubits")
                   => /\ resp'[t].status = 200
                      /\ resp'[t].num_qubits = n_qubits
                      /\ n_qubits' = n_qubits
       /\ n_qubits' # n_qubits => \E t \in Threads : AssignsQubits(t)]_vars

\* POST /update/qubits of the cap itself was answered 200 and a GET
\* /get/qubits after it reports that value
C4_Witness ==
    \E t, u \in Threads :
       /\ Answered(t, "update_qubits") /\ resp[t].status = 200
       /\ max_qubits > 0 /\ loc[t].n = max_qubits
       /\ Answered(u, "get_qubits") /\ resp[u].num_qubits = loc[t].n

\* C5: with one request at a time, at most one handle is built per backend
\* identifier, a cache entry is never removed or replaced, and an execution
\* whose cache test found the backend takes the handle that is cached.
C5_HandlesBuiltOnceAndReused ==
    [][/\ \A b \in ALLOWED_BACKENDS : built(b)' <= 1
       /\ \A b \in DOMAIN simulators :
             b \in DOMAIN simulators' /\ simulators'[b] = simulators[b]
       /\ \A t \in Threads :
             (pc[t] = "call_lookup" /\ pc'[t] # "call_lookup" /\ loc[t].hit)
                => /\ pc'[t] = "call_validate"
                   /\ loc'[t].sim = simulators[loc[t].b_checked]
                   /\ loc'[t].sim.gen = 1]_vars

\* an execution found its backend cached, both backends being cached
C5_Witness ==
    /\ pc[1] = "call_lookup" /\ loc[1].hit
    /\ DOMAIN simulators = ALLOWED_BACKENDS


\* the diagnostic of a valid circuit
ValidDiag == Sentinel(Msg("Valid circuit.", <<>>), VALID)

\* C6: validate_qasm, for a script that parses, has at most limit qubits,
\* as many classical bits as qubits, at least one measurement and no
\* operation after a measurement, returns 'Valid circuit.' with line =
\* col = -1.
C6_ValidCircuitIsReportedValid ==
    (/\ vq.phase = "return"
     /\ vq.script.parse = "ok"
     /\ vq.script.nq <= vq.limit
     /\ vq.script.nq = vq.script.nc
     /\ has_measurement(vq.script.lines)
     /\ ~has_intermediate_measure(vq.script.lines))
       => vq.out = Returned(ValidDiag)

\* C7: whenever the execution of POST /execute raises, the handler answers
\* 400 with the diagnostic record the validator returns for the same script
\* and the num_qubits configured at that moment.
C7_ExecutionErrorAnswersDiagnostic ==
    [][\A t \in Threads :
          (pc[t] = "except" /\ pc'[t] = "done")
             => /\ validate_qasm(loc[t].script, n_qubits).exc = ""
                /\ resp'[t].status = 400
                /\ resp'[t].exc = ""
                /\ resp'[t].diag = validate_qasm(loc[t].script, n_qubits).result]_vars

\* C8: POST /update/qubits answers 400 when the body lacks num_qubits and
\* when its value is 0, negative or above the cap, and in each of these
\* cases leaves num_qubits unchanged.
C8_BadQubitsAnswered400 ==
    [][\A t \in Threads :
          (/\ Handles(t, "update_qubits")
           /\ \/ loc'[t].kind = "nofield"
              \/ loc'[t].kind = "value" /\ ~ValidQubits(loc'[t].n))
             => resp'[t].status = 400 /\ n_qubits' = n_qubits]_vars

C10_OverLimitNeverRuns ==
    [][\A t \in Threads :
          /\ (pc[t] = "call_validate" /\ pc'[t] # "call_validate"
                 /\ loc[t].script.parse = "ok" /\ loc[t].script.nq > n_qubits)
                => /\ pc'[t] = "except"
                   /\ loc'[t].exc = "ValueError"
                   /\ loc'[t].limit = n_qubits
                   /\ ~resp'[t].result
          /\ (pc'[t] = "call_engine" /\ pc[t] # "call_engine")
                => /\ pc[t] = "call_validate"
                   /\ loc[t].script.parse = "ok"
                   /\ loc[t].script.nq <= n_qubits
          /\ (resp'[t].result /\ ~resp[t].result) => pc[t] = "call_engine"
          /\ pc[t] = "except" => ~resp'[t].result]_vars

\* an execution was refused for a circuit over the limit, while another
\* one has a result
C10_Witness ==
    \E t, u \in Threads :
       /\ pc[t] = "except" /\ loc[t].exc = "ValueError"
       /\ loc[t].script.nq > loc[t].limit
       /\ pc[u] = "done" /\ resp[u].result


\* the validator was called on a circuit that parses, is within the limit
\* and has as many classical bits as qubits, and the call is over
PassedCountChecks ==
    /\ vq.phase = "return"
    /\ vq.script.parse = "ok"
    /\ vq.script.nq <= vq.limit
    /\ vq.script.nq = vq.script.nc

\* C11: validate_qasm, for a script that parses, is within the limit, has
\* equal qubit and classical bit counts and has a measurement followed by a
\* further gate operation, returns line = col = -4.
C11_IntermediateMeasurementReported ==
    (/\ PassedCountChecks
     /\ \E i, j \in 1..Len(vq.script.lines) :
           /\ i < j
           /\ IsMeasureStatement(vq.script.lines[i])
           /\ IsGateStatement(vq.script.lines[j]))
       => /\ vq.out.exc = ""
          /\ vq.out.result.loc_type = "int"
          /\ vq.out.result.line = INTERMEDIATE_MEASUREMENT
          /\ vq.out.result.col = INTERMEDIATE_MEASUREMENT

\* C12: validate_qasm, for a script that parses, is within the limit, has
\* equal qubit and classical bit counts and has no measurement operation,
\* returns line = col = -5.
C12_MissingMeasurementReported ==
    (/\ PassedCountChecks
     /\ \A i \in 1..Len(vq.script.lines) :
           ~IsMeasureStatement(vq.script.lines[i]))
       => /\ vq.out.exc = ""
          /\ vq.out.result.loc_type = "int"
          /\ vq.out.result.line = NO_MEASUREMENT
          /\ vq.out.result.col = NO_MEASUREMENT

\* C13: the line/col pair of a result tells its category: -1 only for a
\* valid circuit, -2 to -5 only for a parsed circuit, the location of the
\* parser message for a parse failure that carries one, and -6 for a parse
\* failure that carries none; a parse failure never gives line = col = -1.
C13_LineColTellCategory ==
    (vq.phase = "return" /\ vq.out.exc = "") =>
       /\ (vq.out.result.loc_type = "int" /\ vq.out.result.line = VALID)
             => vq.script.parse = "ok"
       /\ (vq.out.result.loc_type = "int"
              /\ vq.out.result.line \in
                    {TOO_MANY_QUBITS, REGISTER_MISMATCH,
                     INTERMEDIATE_MEASUREMENT, NO_MEASUREMENT})
             => vq.script.parse = "ok" /\ vq.out.result.col = vq.out.result.line
       /\ vq.script.parse = "err_loc"
             => /\ vq.out.result.line = vq.script.loc[1]
                /\ vq.out.result.col = vq.script.loc[2]
       /\ vq.script.parse = "err_noloc"
             => /\ vq.out.result.loc_type = "int"
                /\ vq.out.result.line = UNKNOWN_ERROR
                /\ vq.out.result.col = UNKNOWN_ERROR


\* thread t makes a successful assignment of backend' in this step
AssignsBackend(t) ==
    \/ Handles(t, "assign_backend") /\ resp'[t].exc = ""
          /\ loc'[t].b = backend'
    \/ Handles(t, "update_backend") /\ resp'[t].status = 200
          /\ loc'[t].kind = "value" /\ loc'[t].b = backend'

\* C14: with handlers interleaved on the shared object, (a) num_qubits and
\* backend change only in the step of one successful update, which writes
\* exactly the value of its request over whatever was there, and the value
\* written is a valid one, never a mixture; (b) the lazy construction does
\* not test the cache again: every construction step builds and stores a
\* new handle for the backend it reads, also when another execution has
\* stored one since the test.
C14_LastWriteWinsAndRacyConstruction ==
    [][/\ n_qubits' # n_qubits
             => /\ \E t \in Threads : AssignsQubits(t)
                /\ ValidQubits(n_qubits')
       /\ backend' # backend
             => /\ \E t \in Threads : AssignsBackend(t)
                /\ backend' \in ALLOWED_BACKENDS
       /\ \A t \in Threads :
             /\ (Handles(t, "update_qubits") /\ resp'[t].status = 200)
                   => n_qubits' = loc'[t].n
             /\ (Handles(t, "update_backend") /\ resp'[t].status = 200)
                   => backend' = loc'[t].b
             /\ (pc[t] = "call_init" /\ pc'[t] = "call_lookup")
                   => /\ backend \in DOMAIN simulators'
                      /\ simulators'[backend].gen = built(backend) + 1
                      /\ \A b \in DOMAIN simulators :
                            b # backend => simulators'[b] = simulators[b]]_vars

\* two executions both found the same backend missing, and each has built
\* a handle for it: the cache holds the second one
C14_Witness ==
    \E b \in ALLOWED_BACKENDS :
       /\ DOMAIN simulators = {b} /\ built(b) = 2
       /\ \A t \in Threads :
             /\ pc[t] = "call_lookup"
             /\ loc[t].b_checked = b /\ ~loc[t].hit

\* the positions of an execution inside QuantumComputer.__call__
CallLabels == {"call_check", "call_init", "call_lookup", "call_validate", "call_engine"}

\* thread t takes a step of an execution (run_script or __call__)
ExecutionStep(t) ==
    /\ pc'[t] # pc[t]
    /\ \/ pc[t] \in CallLabels \cup {"except"}
       \/ pc[t] = "idle" /\ loc'[t].op = "execute"

\* C15: with one request at a time, an execution goes from the cache test
\* to the construction (only if the backend is absent) or the lookup, then
\* to parsing and the qubit-limit check (a script that does not parse fails
\* before the limit is looked at), then to the engine; so whenever it
\* parses, checks the limit, runs the engine or has failed at one of these,
\* the cache holds a handle of the configured backend; and no step of an
\* execution changes num_qubits or backend.
C15_CacheThenParseThenLimitThenEngine ==
    [][\A t \in Threads :
          /\ pc[t] = "call_check"
                => /\ pc'[t] \in {"call_check", "call_init", "call_lookup"}
                   /\ pc'[t] = "call_init" => backend \notin DOMAIN simulators
                   /\ pc'[t] = "call_lookup" => backend \in DOMAIN simulators
          /\ pc[t] = "call_init"
                => /\ pc'[t] \in {"call_init", "call_lookup"}
                   /\ pc'[t] = "call_lookup" => backend \in DOMAIN simulators'
          /\ pc[t] = "call_lookup"
                => pc'[t] \in {"call_lookup", "call_validate"}
          /\ pc[t] = "call_validate"
                => /\ pc'[t] \in {"call_validate", "call_engine", "except"}
                   /\ backend \in DOMAIN simulators
                   /\ loc[t].sim = simulators[backend]
                   /\ (pc'[t] = "except" /\ loc[t].script.parse # "ok")
                         => loc'[t].exc = "QiskitError"
                   /\ (pc'[t] = "except" /\ loc[t].script.parse = "ok")
                         => /\ loc'[t].exc = "ValueError"
                            /\ loc[t].script.nq > n_qubits
                   /\ pc'[t] = "call_engine"
                         => /\ loc[t].script.parse = "ok"
                            /\ loc[t].script.nq <= n_qubits
                   /\ pc'[t] = "except" => backend \in DOMAIN simulators'
          /\ pc[t] = "call_engine"
                => /\ pc'[t] \in {"call_engine", "except", "done"}
                   /\ backend \in DOMAIN simulators'
          /\ (pc[t] = "except" /\ loc[t].exc \in {"QiskitError", "ValueError"})
                => backend \in DOMAIN simulators'
          /\ ExecutionStep(t)
                => n_qubits' = n_qubits /\ backend' = backend]_vars

\* an execution has failed at the qubit-limit check, and the one handle of
\* the cache is the one of the configured backend
C15_Witness ==
    \E t \in Threads :
       /\ pc[t] = "except" /\ loc[t].exc = "ValueError"
       /\ loc[t].script.nq > n_qubits
       /\ DOMAIN simulators = {backend}

\* C16: has_intermediate_measure returns true exactly when, blank lines and
\* comment lines left out, some line that is not a measure statement comes
\* after a line that is a measure statement.
C16_TrueIffStatementAfterMeasure ==
    vq.phase = "return_measure" =>
       (vq.out.result <=>
           \E i, j \in 1..Len(vq.script.lines) :
              /\ i < j
              /\ IsMeasureStatement(vq.script.lines[i])
              /\ ~IsSkippedLine(vq.script.lines[j])
              /\ ~IsMeasureStatement(vq.script.lines[j]))

\* C17: the lookup of an execution never fails: when the handle is read
\* for the configured backend, that backend is a key of the cache, whatever
\* backend updates took effect since the cache test; and the handle taken is
\* the one of the backend the cache test read.
C17_LookupNeverFails ==
    [][\A t \in Threads :
          (pc[t] = "call_lookup" /\ pc'[t] # "call_lookup")
             => /\ backend \in DOMAIN simulators
                /\ pc'[t] = "call_validate"
                /\ loc'[t].exc = ""
                /\ loc'[t].sim.backend = loc[t].b_checked]_vars

\* C18: when an execution failed because the circuit has more qubits than
\* num_qubits, its response has status 400 and carries the diagnostic of
\* too many qubits (line = col = -2) naming the limit that rejected the
\* circuit, whatever updates of num_qubits came before the fallback
\* validation.
C18_OverflowDiagnosticNamesTheLimit ==
    [][\A t \in Threads :
          (/\ pc[t] = "except" /\ loc[t].exc = "ValueError"
           /\ pc'[t] = "done")
             => /\ resp'[t].status = 400
                /\ resp'[t].diag.loc_type = "int"
                /\ resp'[t].diag.line = TOO_MANY_QUBITS
                /\ resp'[t].diag.col = TOO_MANY_QUBITS
                /\ resp'[t].diag.error.args = <<loc[t].limit>>]_vars

\* the response says that the body or a field of the request is missing
MissingAnswer(r) ==
    /\ r.status = 400
    /\ \/ r.message \in {"Missing request body.", "Missing request field."}
       \/ r.error \in {NoBodyError,
                        Msg("No QASM script: Missing \"script\" field.", <<>>)}

\* C19: the handlers of GET /, GET /ping, GET /get/qubits, GET /get/backend
\* and POST /validate, and every POST handler that answers 400 for a missing
\* body or a missing field, leave num_qubits, backend and the backend cache
\* as they were; a validation never adds a handle to the cache.
C19_ReadsAndMissingAnswersKeepState ==
    [][\A t \in Threads :
          /\ (\E op \in {"index", "ping", "get_qubits", "get_backend", "validate"} :
                 Handles(t, op))
                => /\ n_qubits' = n_qubits /\ backend' = backend
                   /\ simulators' = simulators
          /\ (/\ pc[t] = "idle" /\ pc'[t] = "done"
              /\ loc'[t].op \in {"execute", "validate", "update_qubits", "update_backend"}
              /\ MissingAnswer(resp'[t]))
                => /\ n_qubits' = n_qubits /\ backend' = backend
                   /\ simulators' = simulators]_vars

\* a validation was answered with a diagnostic and an update without its
\* field was answered 400, and the cache is still empty
C19_Witness ==
    \E t, u \in Threads :
       /\ Answered(t, "validate") /\ resp[t].status = 200
       /\ Answered(u, "update_backend") /\ MissingAnswer(resp[u])
       /\ simulators = EmptyCache

=============================================================================
